---- MODULE Spec2Model ----
(***************************************************************************)
(* Model of src/agentic-api/main.py: a FastAPI application whose lifespan  *)
(* hook configures telemetry before yielding, and whose two GET handlers   *)
(* return fixed dictionaries.                                              *)
(*                                                                         *)
(* The hosting runtime (the ASGI server driving the application object of  *)
(* line 14) is modelled only as far as it drives this code: it enters the  *)
(* lifespan context manager, starts listening once the hook has yielded,   *)
(* dispatches requests to the handlers, sends their results, and resumes   *)
(* (or throws into) the hook at the end.                                   *)
(***************************************************************************)
EXTENDS Integers, Sequences, FiniteSets, TLC

\* ---------------------------------------------------------------- bounds
\* Number of request slots that can be in flight at the same time.
MaxInFlight == 2
\* Number of requests accepted over one process lifetime.
MaxRequests == 3

\* ---------------------------------------------------------------- state
VARIABLES
    phase,             \* host lifecycle: start, startup, listening, stopping, stopped, failed
    lifespan_pc,       \* position of the lifespan generator
    configureCalls,    \* number of calls of telemetry.configure_opentelemetry()
    configureOutcome,  \* none, returned, raised
    telemetry,         \* the process-wide telemetry pipeline handle
    logger,            \* the module's logger handle
    logs,              \* messages emitted through logger
    yields,            \* number of times the lifespan generator has yielded
    exitCause,         \* why the serving phase ended: none, shutdown, signal, error
    requests,          \* request slot -> [pc, path, result]
    responses          \* responses sent, in order: [path, status, body]

vars == <<phase, lifespan_pc, configureCalls, configureOutcome, telemetry,
          logger, logs, yields, exitCause, requests, responses>>

Ids == 1..MaxInFlight

\* The routes registered by the decorators of lines 18 and 24.
Paths == {"/", "/health"}

\* A route declared with @app.get and no status_code answers 200.
DefaultStatus == 200

\* logging.getLogger(__name__) for the module main.
LoggerName == "main"

IdleRequest == [pc |-> "idle", path |-> "/", result |-> <<>>]

InFlight == {r \in Ids : requests[r].pc \in {"received", "handled"}}

Init ==
    /\ phase = "start"
    /\ lifespan_pc = "unstarted"
    /\ configureCalls = 0
    /\ configureOutcome = "none"
    /\ telemetry = "unconfigured"
    /\ logger = LoggerName
    /\ logs = <<>>
    /\ yields = 0
    /\ exitCause = "none"
    /\ requests = [r \in Ids |-> IdleRequest]
    /\ responses = <<>>

\* ---------------------------------------------------------------- lifespan

\* Faulty variant: the hook yields first and leaves configuration for later.
LifespanEnterYieldFirst ==
    /\ phase = "start"
    /\ lifespan_pc = "unstarted"
    /\ phase' = "startup"
    /\ lifespan_pc' = "yield"
    /\ yields' = yields + 1
    /\ UNCHANGED <<configureCalls, configureOutcome, telemetry, logger, logs,
                   exitCause, requests, responses>>

\* Faulty variant: the hook calls configure twice on entry.
LifespanEnterTwice ==
    /\ phase = "start"
    /\ lifespan_pc = "unstarted"
    /\ phase' = "startup"
    /\ lifespan_pc' = "configure"
    /\ configureCalls' = configureCalls + 2
    /\ UNCHANGED <<configureOutcome, telemetry, logger, logs, yields,
                   exitCause, requests, responses>>

\* The host enters the context manager; the generator body runs up to and
\* into the call of line 10.
LifespanEnter ==
    /\ phase = "start"
    /\ lifespan_pc = "unstarted"
    /\ phase' = "startup"
    /\ lifespan_pc' = "configure"
    /\ configureCalls' = configureCalls + 1
    /\ UNCHANGED <<configureOutcome, telemetry, logger, logs, yields,
                   exitCause, requests, responses>>

\* Line 10 returns; the generator reaches the yield of line 11.
ConfigureReturns ==
    /\ lifespan_pc = "configure"
    /\ configureOutcome' = "returned"
    /\ telemetry' = "configured"
    /\ lifespan_pc' = "yield"
    /\ yields' = yields + 1
    /\ UNCHANGED <<phase, configureCalls, logger, logs, exitCause,
                   requests, responses>>

\* Faulty variant: the exception of configure is swallowed and the hook yields.
ConfigureRaisesSwallowed ==
    /\ lifespan_pc = "configure"
    /\ configureOutcome' = "raised"
    /\ lifespan_pc' = "yield"
    /\ yields' = yields + 1
    /\ UNCHANGED <<phase, configureCalls, telemetry, logger, logs, exitCause,
                   requests, responses>>

\* Line 10 raises; nothing in lifespan catches it, so it leaves the
\* generator and the host's startup fails.
ConfigureRaises ==
    /\ lifespan_pc = "configure"
    /\ configureOutcome' = "raised"
    /\ lifespan_pc' = "raised"
    /\ phase' = "failed"
    /\ UNCHANGED <<configureCalls, telemetry, logger, logs, yields, exitCause,
                   requests, responses>>

\* The host has the hook's yield: startup is complete, it accepts traffic.
StartListening ==
    /\ phase = "startup"
    /\ lifespan_pc = "yield"
    /\ phase' = "listening"
    /\ UNCHANGED <<lifespan_pc, configureCalls, configureOutcome, telemetry,
                   logger, logs, yields, exitCause, requests, responses>>

\* The host stops accepting traffic: a normal shutdown or a termination
\* signal it handles as a graceful shutdown.
BeginShutdown(cause) ==
    /\ phase = "listening"
    /\ phase' = "stopping"
    /\ exitCause' = cause
    /\ UNCHANGED <<lifespan_pc, configureCalls, configureOutcome, telemetry,
                   logger, logs, yields, requests, responses>>

\* Faulty variant: the code after the yield raises.
LifespanResumeRaises ==
    /\ phase = "stopping"
    /\ InFlight = {}
    /\ lifespan_pc = "yield"
    /\ lifespan_pc' = "raised"
    /\ phase' = "stopped"
    /\ UNCHANGED <<configureCalls, configureOutcome, telemetry, logger, logs,
                   yields, exitCause, requests, responses>>

\* Faulty variant: the hook configures telemetry again when resumed.
LifespanResumeReconfigures ==
    /\ phase = "stopping"
    /\ InFlight = {}
    /\ lifespan_pc = "yield"
    /\ lifespan_pc' = "returned"
    /\ configureCalls' = configureCalls + 1
    /\ phase' = "stopped"
    /\ UNCHANGED <<configureOutcome, telemetry, logger, logs, yields,
                   exitCause, requests, responses>>

\* The host leaves the context manager normally: the generator is resumed
\* after line 11, finds nothing more to run and returns.
LifespanResume ==
    /\ phase = "stopping"
    /\ InFlight = {}
    /\ lifespan_pc = "yield"
    /\ lifespan_pc' = "returned"
    /\ phase' = "stopped"
    /\ UNCHANGED <<configureCalls, configureOutcome, telemetry, logger, logs,
                   yields, exitCause, requests, responses>>

\* A later startup phase of the host fails while the hook is suspended: the
\* exception is thrown into the generator at line 11. The yield is not inside
\* a try statement, so the exception leaves the generator at once.
LifespanThrow ==
    /\ phase = "startup"
    /\ lifespan_pc = "yield"
    /\ lifespan_pc' = "raised"
    /\ phase' = "failed"
    /\ exitCause' = "error"
    /\ UNCHANGED <<configureCalls, configureOutcome, telemetry, logger, logs,
                   yields, requests, responses>>

\* ---------------------------------------------------------------- requests

\* The host accepts a GET request for one of the two routes.
Receive(r, p) ==
    /\ phase = "listening"
    /\ requests[r].pc \in {"idle", "responded"}
    /\ Len(responses) + Cardinality(InFlight) < MaxRequests
    /\ requests' = [requests EXCEPT ![r] = [pc |-> "received", path |-> p, result |-> <<>>]]
    /\ UNCHANGED <<phase, lifespan_pc, configureCalls, configureOutcome,
                   telemetry, logger, logs, yields, exitCause, responses>>

\* Faulty variant: the message is left out of the dictionary.
rootResultNoMessage == [status |-> "healthy"]

\* The dictionary returned at line 21.
rootResult == [status |-> "healthy", message |-> "Agentic API is running"]

\* Faulty variant: the status is degraded once a response has been sent.
healthResultCounting ==
    IF Len(responses) = 0 THEN [status |-> "healthy"] ELSE [status |-> "seen"]

\* Faulty variant: the status depends on the other requests in flight.
healthResultBusy ==
    IF Cardinality(InFlight) > 1 THEN [status |-> "busy"] ELSE [status |-> "healthy"]

\* The dictionary returned at line 27.
healthResult == [status |-> "healthy"]

\* Faulty variant: the handler logs a message.
rootLogging(r) ==
    /\ requests[r].pc = "received"
    /\ requests[r].path = "/"
    /\ requests' = [requests EXCEPT ![r].pc = "handled", ![r].result = <<rootResult>>]
    /\ logs' = Append(logs, "root called")
    /\ UNCHANGED <<phase, lifespan_pc, configureCalls, configureOutcome,
                   telemetry, logger, yields, exitCause, responses>>

\* The handler of GET /.
root(r) ==
    /\ requests[r].pc = "received"
    /\ requests[r].path = "/"
    /\ requests' = [requests EXCEPT ![r].pc = "handled", ![r].result = <<rootResult>>]
    /\ UNCHANGED <<phase, lifespan_pc, configureCalls, configureOutcome,
                   telemetry, logger, logs, yields, exitCause, responses>>

\* Faulty variant: the handler never returns.
healthHangs(r) ==
    /\ FALSE
    /\ UNCHANGED vars

\* The handler of GET /health.
health(r) ==
    /\ requests[r].pc = "received"
    /\ requests[r].path = "/health"
    /\ requests' = [requests EXCEPT ![r].pc = "handled", ![r].result = <<healthResult>>]
    /\ UNCHANGED <<phase, lifespan_pc, configureCalls, configureOutcome,
                   telemetry, logger, logs, yields, exitCause, responses>>

\* The host sends the handler's result with the route's status.
Respond(r) ==
    /\ requests[r].pc = "handled"
    /\ responses' = Append(responses, [path |-> requests[r].path,
                                       status |-> DefaultStatus,
                                       body |-> requests[r].result[1]])
    /\ requests' = [requests EXCEPT ![r].pc = "responded"]
    /\ UNCHANGED <<phase, lifespan_pc, configureCalls, configureOutcome,
                   telemetry, logger, logs, yields, exitCause>>

\* ---------------------------------------------------------------- specifications

Serve ==
    \/ \E r \in Ids, p \in Paths : Receive(r, p)
    \/ \E r \in Ids : root(r)
    \/ \E r \in Ids : health(r)
    \/ \E r \in Ids : Respond(r)

Lifecycle ==
    \/ LifespanEnter
    \/ ConfigureReturns
    \/ ConfigureRaises
    \/ StartListening
    \/ \E c \in {"shutdown", "signal"} : BeginShutdown(c)
    \/ LifespanResume

Next ==
    \/ Lifecycle
    \/ LifespanThrow
    \/ Serve

Spec == Init /\ [][Next]_vars

\* The host without failures of its own; the event loop runs every step
\* that stays ready, requests and the shutdown request arrive as they will.
NextNoFault ==
    \/ Lifecycle
    \/ Serve

Fairness ==
    /\ WF_vars(LifespanEnter)
    /\ WF_vars(ConfigureReturns \/ ConfigureRaises)
    /\ WF_vars(StartListening)
    /\ WF_vars(LifespanResume)
    /\ \A r \in Ids : WF_vars(root(r))
    /\ \A r \in Ids : WF_vars(health(r))
    /\ \A r \in Ids : WF_vars(Respond(r))

FairSpec == Init /\ [][NextNoFault]_vars /\ Fairness

\* ---------------------------------------------------------------- properties

\* The fixed responses of the two routes, written out.
ExpectedBody(p) ==
    IF p = "/" THEN [status |-> "healthy", message |-> "Agentic API is running"]
               ELSE [status |-> "healthy"]

ExpectedResponse(p) == [path |-> p, status |-> 200, body |-> ExpectedBody(p)]

\* A request has been accepted, handled or answered.
Served == (\E r \in Ids : requests[r].pc # "idle") \/ responses # <<>>

ConfigFailed == configureOutcome = "raised"

\* C1: no request to GET / or GET /health is accepted, handled or answered
\* before the startup hook's call of configure() has returned.
C1_NoRequestBeforeConfigure ==
    Served => (configureOutcome = "returned" /\ telemetry = "configured"
               /\ lifespan_pc \notin {"unstarted", "configure"})

C1_Witness ==
    /\ Len(responses) >= 1
    /\ configureOutcome = "returned"
    /\ \E r \in Ids : requests[r].pc = "received"

\* C2: if configure() raises during startup the failure is neither caught nor
\* retried: the hook has not yielded, the service is not listening, no request
\* is ever accepted or answered, and nothing further happens in the process.
C2_ConfigureFailureIsFatal ==
    /\ [](ConfigFailed => /\ phase = "failed"
                          /\ lifespan_pc = "raised"
                          /\ yields = 0
                          /\ configureCalls = 1
                          /\ ~Served)
    /\ [][~ConfigFailed]_vars

C2_Witness == ConfigFailed /\ phase = "failed" /\ telemetry = "unconfigured"

\* C3: configure() is called exactly once per process lifetime: no call before
\* startup, one call once the service listens, and still one through every
\* served request and through shutdown.
C3_ConfigureOnce ==
    /\ configureCalls <= 1
    /\ (phase = "start" => configureCalls = 0)
    /\ (phase \in {"startup", "listening", "stopping", "stopped", "failed"}
            => configureCalls = 1)

C3_Witness ==
    /\ phase = "stopped"
    /\ Len(responses) >= 2
    /\ configureCalls = 1

\* C4: every response sent for GET / is status 200 with the body
\* {status: healthy, message: Agentic API is running} and every response sent
\* for GET /health is status 200 with the body {status: healthy}, however many
\* requests were served before.
C4_FixedResponses ==
    \A i \in 1..Len(responses) : responses[i] = ExpectedResponse(responses[i].path)

C4_Witness ==
    /\ Len(responses) >= 3
    /\ \E i, j \in 1..Len(responses) :
          responses[i].path = "/" /\ responses[j].path = "/health"

\* C5: any two responses of the same endpoint, wherever they fall in the
\* sequence of requests, have the same status and the same body.
C5_SameEndpointSameResponse ==
    \A i, j \in 1..Len(responses) :
        responses[i].path = responses[j].path
            => /\ responses[i].status = responses[j].status
               /\ responses[i].body = responses[j].body

C5_Witness ==
    \E i, j, k \in 1..Len(responses) :
        /\ i < j /\ j < k
        /\ responses[i].path = responses[k].path
        /\ responses[j].path # responses[i].path

\* C6: while several requests are in flight and their steps interleave, every
\* handler result and every response sent is the one the request would get
\* if it were served alone.
C6_NoInterference ==
    /\ [](\A r \in Ids :
            (requests[r].pc = "handled" /\ Cardinality(InFlight) > 1)
                => requests[r].result = <<ExpectedBody(requests[r].path)>>)
    /\ [][\A r \in Ids :
            (requests[r].pc = "handled" /\ requests'[r].pc = "responded"
             /\ Cardinality(InFlight) > 1)
                => responses' = Append(responses, ExpectedResponse(requests[r].path))]_vars

C6_Witness ==
    \E r1, r2 \in Ids :
        /\ r1 # r2
        /\ requests[r1].pc = "handled" /\ requests[r1].path = "/health"
        /\ requests[r2].pc = "handled" /\ requests[r2].path = "/"
        /\ Len(responses) >= 1

\* C7 as stated: once the hook has yielded, its part after the yield runs on
\* every exit path, a failure raised into the hook at its yield included.
C7_ReleaseOnEveryExit ==
    (yields >= 1 /\ phase \in {"stopped", "failed"}) => lifespan_pc = "returned"

\* C7 amended: on a normal shutdown and on a termination signal the hook is
\* resumed past its yield and returns; when a failure is raised into the hook
\* at its yield, the hook ends with that exception and nothing after the
\* yield runs.
C7_ReleaseOnShutdownOnly ==
    /\ (phase = "stopped"
            => lifespan_pc = "returned" /\ exitCause \in {"shutdown", "signal"})
    /\ (exitCause = "error"
            => lifespan_pc = "raised" /\ phase = "failed" /\ yields = 1)

C7_Witness ==
    /\ phase = "stopped"
    /\ exitCause = "signal"
    /\ lifespan_pc = "returned"
    /\ yields = 1

\* C8: every step of serving a request (accepting it, running its handler,
\* sending its response) leaves the lifecycle phase, the hook, the count and
\* outcome of configure(), the telemetry handle and the logger handle as they
\* were, and emits no log message.
C8_ServingChangesNothing ==
    [][(requests' # requests \/ responses' # responses)
          => UNCHANGED <<phase, lifespan_pc, configureCalls, configureOutcome,
                         telemetry, logger, logs, yields, exitCause>>]_vars

C8_Witness ==
    /\ phase = "listening"
    /\ \E i \in 1..Len(responses) : responses[i].path = "/"
    /\ logs = <<>>
    /\ logger = "main"
    /\ telemetry = "configured"

PhaseOrder ==
    {<<"start", "startup">>, <<"startup", "listening">>, <<"startup", "failed">>,
     <<"listening", "stopping">>, <<"stopping", "stopped">>}

\* C9: under fairness, once configure() has returned the process reaches the
\* listening state, every request received is eventually answered, and the
\* lifecycle phases follow one another only in the order start, startup
\* (configure), listening, shutdown.
C9_StartupAndServiceProgress ==
    /\ (phase = "startup" /\ configureOutcome = "returned") ~> (phase = "listening")
    /\ \A r \in Ids : (requests[r].pc = "received") ~> (requests[r].pc = "responded")
    /\ [][phase' # phase => <<phase, phase'>> \in PhaseOrder]_vars

C9_Witness ==
    /\ phase = "stopping"
    /\ \E r \in Ids : requests[r].pc = "responded" /\ requests[r].path = "/health"
    /\ InFlight = {}

\* C10: the hook yields exactly once per run; when resumed at shutdown it
\* returns at once, without another call of configure() and without any other
\* effect, and a shutdown that has begun always completes.
C10_ResumeOnlyReturns ==
    /\ [](yields <= 1)
    /\ [](lifespan_pc = "returned" => yields = 1 /\ configureCalls = 1)
    /\ [][(lifespan_pc = "yield" /\ lifespan_pc' # "yield" /\ phase = "stopping")
            => /\ lifespan_pc' = "returned"
               /\ UNCHANGED <<configureCalls, configureOutcome, telemetry,
                              logger, logs, yields, requests, responses>>]_vars
    /\ (phase = "stopping") ~> (phase = "stopped")

C10_Witness ==
    /\ lifespan_pc = "returned"
    /\ phase = "stopped"
    /\ exitCause = "shutdown"
    /\ responses = <<>>

====
